---- MODULE Spec2Model ----
(***************************************************************************)
(* A model of lmformatenforcer.TokenEnforcer (tokenenforcer.py): the       *)
(* session that maps an already generated token sequence to the set of     *)
(* token ids the grammar allows next.                                      *)
(*                                                                         *)
(* Strings are sequences of one-character strings.  The lists of token ids *)
(* the code builds (allowed_tokens) are modelled as sets: the claims are   *)
(* about which ids are returned, not about their order or multiplicity.    *)
(* Every operation of the session is a pure operator from the session's    *)
(* maps to the new maps and the call's outcome; the actions apply them.    *)
(***************************************************************************)
EXTENDS Integers, Sequences, FiniteSets, TLC

VARIABLES
    cfg,                  \* the constructor's arguments: [grammar, vocab]
    prefix_states,        \* self.prefix_states: token tuple -> OutputTensorState
    allowed_token_cache,  \* self.allowed_token_cache: cache key -> token ids
    log,                  \* history: sequence -> outcome of its latest query
    first,                \* history: sequence -> the branch its first query
                          \*   took and the outcome of that query
    origin,               \* history: stored sequence -> length of the text of
                          \*   the fresh-root entry it descends from
    order,                \* history: the distinct sequences queried, in the
                          \*   order of their first query (SpecBeams only)
    twin,                 \* a second session with the same constructor
                          \*   arguments and its history (SpecBeams and
                          \*   SpecPlain only)
    walk                  \* one call of _collect_allowed_tokens taken step by
                          \*   step: its call stack, the ids appended, the
                          \*   visits of each tree node (SpecWalk only)

vars == <<cfg, prefix_states, allowed_token_cache, log, first, origin, order,
          twin, walk>>

----------------------------------------------------------------------------
(* Bounds of the model.                                                    *)

\* Longest token sequence the host passes to get_allowed_tokens.
MaxSeqLen == 2
\* Longest sequence the host passes whose immediate prefix it never passed.
MaxPromptLen == 1
\* Distinct sequences the host passes to one session.
MaxQueries == 3

\* The most sequences a session whose calls are taken step by step stores.
MaxWalkCalls == 2

----------------------------------------------------------------------------
(* Characters, strings, the constructor's inputs.                          *)

Quote == "\""
Chars == {"a", "b", "c", Quote}

None == "None"

\* eos_token_id handed to the constructor.
eos_token_id == 0

\* characters[n:] of Python: the string without its first n characters.
DropFirst(s, n) == IF n >= Len(s) THEN <<>> ELSE SubSeq(s, n + 1, Len(s))

\* regular_tokens: the (token_id, token_string) pairs of a vocabulary, as a
\* function from token id to token string.
regular_tokens(vocab) ==
    CASE vocab = "toy"  -> (1 :> <<"a">> @@ 2 :> <<"b">> @@ 3 :> <<"a", "b">>
                            @@ 4 :> <<"c">>)
      [] vocab = "nob"  -> (1 :> <<"a">> @@ 2 :> <<"c">> @@ 3 :> <<"a", "c">>)
      [] vocab = "odd"  -> (1 :> <<>> @@ 2 :> <<"a", "b">> @@ 3 :> <<"b">>)
      [] vocab = "fab"  -> (1 :> <<"a">> @@ 2 :> <<"a", "b">> @@ 3 :> <<"c">>)
      [] vocab = "json" -> (1 :> <<"a">> @@ 2 :> <<"a", Quote>>
                            @@ 3 :> <<"a", Quote, "c">> @@ 4 :> <<Quote, "c">>)

TokenIds(vocab) == DOMAIN regular_tokens(vocab)

\* The constructor arguments the model draws the session from.
Configs ==
    { [grammar |-> "StringParser", vocab |-> "toy"],
      [grammar |-> "StringParser", vocab |-> "nob"],
      [grammar |-> "StringParser", vocab |-> "odd"],
      [grammar |-> "json",         vocab |-> "json"],
      [grammar |-> "loop",         vocab |-> "fab"],
      [grammar |-> "recognized",   vocab |-> "fab"],
      [grammar |-> "unexpected",   vocab |-> "fab"] }

RECURSIVE Concat(_, _)
\* decoder: the text of a token sequence (the token strings, concatenated).
Concat(v, seq) ==
    IF seq = <<>> THEN <<>> ELSE v[Head(seq)] \o Concat(v, Tail(seq))

decoder(c, token_sequence) == Concat(regular_tokens(c.vocab), token_sequence)

----------------------------------------------------------------------------
(* TokenizerPrefixTree: a node is the string spelled from the root.        *)

TreeNodes(vocab) ==
    LET v == regular_tokens(vocab)
    IN  UNION { { SubSeq(v[t], 1, n) : n \in 0..Len(v[t]) } : t \in DOMAIN v }

\* tree_node.children.keys()
children(vocab, tree_node) ==
    { ch \in Chars : Append(tree_node, ch) \in TreeNodes(vocab) }

\* tree_node.tokens
tokens(vocab, tree_node) ==
    LET v == regular_tokens(vocab) IN { t \in DOMAIN v : v[t] = tree_node }

\* tokenizer_tree.json_freetext_tokens: "all of the tokens that don't contain
\* quote, or end with quote".
json_freetext_tokens(vocab) ==
    LET v == regular_tokens(vocab)
    IN  { t \in DOMAIN v :
            \A i \in 1..Len(v[t]) : v[t][i] = Quote => i = Len(v[t]) }

----------------------------------------------------------------------------
(* CharacterLevelParser: the grammar states.  A state is a record          *)
(*   [kind, rest, q]: kind names the parser class or grammar, rest is the  *)
(*   text a StringParser still expects, q the state of a table grammar.    *)
(* The grammars are the caller's: a literal string, a quoted free text     *)
(* followed by a structural character, a loop with cache keys, and two     *)
(* grammars with a state whose get_allowed_characters() raises.  None of   *)
(* them reads the alphabet the constructor configures, and each raises at  *)
(* most one kind of exception, so the order in which the code iterates a   *)
(* set of characters does not change a call's outcome.                     *)

ForceStopParser == [kind |-> "ForceStopParser", rest |-> <<>>, q |-> ""]

StringParser(string) == [kind |-> "StringParser", rest |-> string, q |-> ""]

TableState(g, q) == [kind |-> g, rest |-> <<>>, q |-> q]

\* The parser handed to the constructor.
root_parser(c) ==
    CASE c.grammar = "StringParser" -> StringParser(<<"a", "b">>)
      [] c.grammar = "json"         -> TableState("json", "open")
      [] c.grammar = "loop"         -> TableState("loop", "even")
      [] c.grammar = "recognized"   -> TableState("recognized", "r0")
      [] c.grammar = "unexpected"   -> TableState("unexpected", "r0")

\* What a call of parser.get_allowed_characters() raises: None, a recognized
\* LMFormatEnforcerException, or another Exception.
raises(parser) ==
    IF parser.q = "bad"
    THEN (IF parser.kind = "recognized" THEN "LMFormatEnforcerException"
          ELSE "Exception")
    ELSE None

\* parser.get_allowed_characters(), where it returns.
get_allowed_characters(parser) ==
    CASE parser.kind = "ForceStopParser" -> {}
      [] parser.kind = "StringParser" ->
            IF parser.rest = <<>> THEN {} ELSE {Head(parser.rest)}
      [] parser.kind = "json" ->
            (CASE parser.q = "open"   -> Chars
               [] parser.q = "closed" -> {"c"}
               [] OTHER               -> {})
      [] parser.kind = "loop" ->
            (IF parser.q = "even" THEN {"a"} ELSE {"b"})
      [] OTHER ->
            (CASE parser.q = "r0" -> {"a", "c"}
               [] parser.q = "r1" -> {"b"}
               [] parser.q = "r3" -> {"c"}
               [] OTHER           -> {})

\* parser.add_character(character), for an allowed character.
add_character(parser, character) ==
    CASE parser.kind = "ForceStopParser" -> parser
      [] parser.kind = "StringParser" -> StringParser(Tail(parser.rest))
      [] parser.kind = "json" ->
            (CASE parser.q = "open" ->
                    TableState("json", IF character = Quote THEN "closed"
                                       ELSE "open")
               [] OTHER -> TableState("json", "done"))
      [] parser.kind = "loop" ->
            TableState("loop", IF parser.q = "even" THEN "odd" ELSE "even")
      [] OTHER ->
            (CASE parser.q = "r0" ->
                    TableState(parser.kind, IF character = "a" THEN "r1"
                                            ELSE "r3")
               [] parser.q = "r1" -> TableState(parser.kind, "bad")
               [] OTHER           -> TableState(parser.kind, "r3"))

\* parser.can_end()
can_end(parser) ==
    CASE parser.kind = "ForceStopParser" -> TRUE
      [] parser.kind = "StringParser"    -> parser.rest = <<>>
      [] parser.kind = "json"            -> parser.q = "done"
      [] parser.kind = "loop"            -> parser.q = "even"
      [] OTHER                           -> parser.q = "r3"

\* parser.cache_key(): None, or a key shared by the states that behave alike.
cache_key(parser) ==
    IF parser.kind \in {"ForceStopParser", "StringParser"} THEN None
    ELSE parser.q

\* parser.shortcut_key()
shortcut_key(parser) ==
    IF parser.kind = "json" /\ parser.q = "open" THEN "json_freetext" ELSE None

----------------------------------------------------------------------------
(* TokenEnforcer.                                                          *)

\* OutputTensorState
OutputTensorState(str_so_far, parser, allowed) ==
    [str_so_far |-> str_so_far, parser |-> parser, allowed_tokens |-> allowed]

\* The empty dict.
Empty == [x \in {} |-> 0]

Put(f, k, v) == [x \in (DOMAIN f) \cup {k} |-> IF x = k THEN v ELSE f[x]]

\* A traversal that explores every child of the tree node, whatever the
\* grammar allows.
characters_to_explore_all(c, parser, tree_node, shortcut) ==
    children(c.vocab, tree_node)

\* characters_to_explore of _collect_allowed_tokens: the characters shared by
\* the tree node and the grammar state, cut down to the quote under the
\* free-text shortcut.
characters_to_explore(c, parser, tree_node, shortcut) ==
    LET allowed_characters == get_allowed_characters(parser)
        relevant_characters == children(c.vocab, tree_node)
        shared == relevant_characters \cap allowed_characters
    IN  IF shortcut = "json_freetext" THEN shared \cap {Quote} ELSE shared

\* A traversal whose recursive calls append to a list of their own: only the
\* ids of the node itself are left.
Collected_own(here, below) == [tokens |-> here, raised |-> None]

\* What one call of _collect_allowed_tokens leaves behind: the ids it
\* appended itself (here) and those of the calls it made (below), or the
\* exception one of them raised.
Collected(here, below) ==
    [tokens |-> here \cup UNION { b.tokens : b \in below },
     raised |-> IF \A b \in below : b.raised = None THEN None
                ELSE (CHOOSE b \in below : b.raised # None).raised]

RECURSIVE _collect_allowed_tokens(_, _, _, _)
\* The tree/grammar intersection from tree_node with the grammar state
\* parser: the token ids it appends, and what it raises.
_collect_allowed_tokens(c, parser, tree_node, shortcut) ==
    IF raises(parser) # None
    THEN [tokens |-> tokens(c.vocab, tree_node), raised |-> raises(parser)]
    ELSE Collected(
            tokens(c.vocab, tree_node)
              \cup (IF shortcut = "json_freetext"
                    THEN json_freetext_tokens(c.vocab) ELSE {}),
            { _collect_allowed_tokens(c, add_character(parser, ch),
                                      Append(tree_node, ch), None) :
              ch \in characters_to_explore(c, parser, tree_node, shortcut) })

\* A computation whose handler of unexpected faults also stores the forced
\* end marker in the cross-path cache.
Computed_cached_fallback(c, states, cache, state, col) ==
    LET key == cache_key(state.parser)
        allowed == col.tokens
                   \cup (IF can_end(state.parser) THEN {eos_token_id} ELSE {})
    IN  IF col.raised = "LMFormatEnforcerException"
        THEN [state |-> state, cache |-> cache, raised |-> col.raised]
        ELSE IF col.raised # None \/ allowed = {}
        THEN [state  |-> [state EXCEPT !.allowed_tokens = {eos_token_id}],
              cache  |-> IF key # None THEN Put(cache, key, {eos_token_id})
                         ELSE cache,
              raised |-> None]
        ELSE [state  |-> [state EXCEPT !.allowed_tokens = allowed],
              cache  |-> IF key # None THEN Put(cache, key, allowed) ELSE cache,
              raised |-> None]

\* _compute_allowed_tokens after the cache lookup missed, col being what
\* _collect_allowed_tokens left: the state with its allowed_tokens set, the
\* cross-path cache, and the exception that leaves the method.
Computed(c, states, cache, state, col) ==
    LET key == cache_key(state.parser)
        allowed == col.tokens
                   \cup (IF can_end(state.parser) THEN {eos_token_id} ELSE {})
        has_root == \E s \in DOMAIN states :
                        states[s].parser = root_parser(c)
    IN  IF col.raised = "LMFormatEnforcerException"
        THEN [state |-> state, cache |-> cache, raised |-> col.raised]
        ELSE IF col.raised # None \/ allowed = {}
        THEN \* except Exception: the sequence is forced to stop
             (IF has_root
              THEN [state  |-> [state EXCEPT !.allowed_tokens = {eos_token_id}],
                    cache  |-> cache, raised |-> None]
              ELSE [state |-> state, cache |-> cache,
                    raised |-> "StopIteration"])
        ELSE [state  |-> [state EXCEPT !.allowed_tokens = allowed],
              cache  |-> IF key # None THEN Put(cache, key, allowed) ELSE cache,
              raised |-> None]

\* A lookup that takes whatever set the cache holds, whatever its key.
_compute_allowed_tokens_any_key(c, states, cache, state) ==
    IF cache_key(state.parser) # None /\ cache # Empty
    THEN [state  |-> [state EXCEPT
                        !.allowed_tokens =
                            cache[CHOOSE k \in DOMAIN cache : TRUE]],
          cache  |-> cache, raised |-> None]
    ELSE Computed(c, states, cache, state,
                  _collect_allowed_tokens(c, state.parser, <<>>,
                                          shortcut_key(state.parser)))

\* _compute_allowed_tokens(state), states and cache being self.prefix_states
\* and self.allowed_token_cache.
_compute_allowed_tokens(c, states, cache, state) ==
    IF cache_key(state.parser) # None
       /\ cache_key(state.parser) \in DOMAIN cache
    THEN [state  |-> [state EXCEPT
                        !.allowed_tokens = cache[cache_key(state.parser)]],
          cache  |-> cache, raised |-> None]
    ELSE Computed(c, states, cache, state,
                  _collect_allowed_tokens(c, state.parser, <<>>,
                                          shortcut_key(state.parser)))

RECURSIVE AdvanceOver(_, _)
\* The loop of _apply_new_characters over new_characters.
AdvanceOver(parser, new_characters) ==
    IF new_characters = <<>> THEN [parser |-> parser, raised |-> None]
    ELSE IF raises(parser) # None
    THEN [parser |-> parser, raised |-> raises(parser)]
    ELSE IF Head(new_characters) \in get_allowed_characters(parser)
    THEN AdvanceOver(add_character(parser, Head(new_characters)),
                     Tail(new_characters))
    ELSE AdvanceOver(ForceStopParser, Tail(new_characters))

Applied(characters, walked) ==
    [state  |-> OutputTensorState(characters, walked.parser, {}),
     raised |-> walked.raised]

\* A derivation that feeds the whole decoded text to the grammar state of
\* the prefix, not only the characters the last token added.
_apply_new_characters_whole(c, state, token_sequence) ==
    Applied(decoder(c, token_sequence),
            AdvanceOver(state.parser, decoder(c, token_sequence)))

\* _apply_new_characters(state, token_sequence)
_apply_new_characters(c, state, token_sequence) ==
    Applied(decoder(c, token_sequence),
            AdvanceOver(state.parser,
                        DropFirst(decoder(c, token_sequence),
                                  Len(state.str_so_far))))

Returned(toks) == [kind |-> "return", tokens |-> toks, error |-> None]
Raised(err) == [kind |-> "raise", tokens |-> {}, error |-> err]

\* sent_tuple[:-1]
prev_step_tuple(token_sequence) ==
    IF token_sequence = <<>> THEN <<>>
    ELSE SubSeq(token_sequence, 1, Len(token_sequence) - 1)

\* The branch of get_allowed_tokens a call takes.
Path(states, token_sequence) ==
    IF token_sequence \in DOMAIN states THEN "stored"
    ELSE IF prev_step_tuple(token_sequence) \notin DOMAIN states THEN "fresh"
    ELSE "incremental"

\* A derivation that feeds the text of a first call to the root grammar
\* state.
NewState_fed(c, states, token_sequence) ==
    IF Path(states, token_sequence) = "fresh"
    THEN _apply_new_characters(c, OutputTensorState(<<>>, root_parser(c), {}),
                               token_sequence)
    ELSE _apply_new_characters(c, states[prev_step_tuple(token_sequence)],
                               token_sequence)

\* The state get_allowed_tokens derives for a sequence without stored state:
\* the root state (first call of a request), or the state of the immediate
\* prefix advanced over the new characters.
NewState(c, states, token_sequence) ==
    IF Path(states, token_sequence) = "fresh"
    THEN [state  |-> OutputTensorState(decoder(c, token_sequence),
                                       root_parser(c), {}),
          raised |-> None]
    ELSE _apply_new_characters(c, states[prev_step_tuple(token_sequence)],
                               token_sequence)

\* The end of a computing branch of get_allowed_tokens: comp is what
\* _compute_allowed_tokens did to the state stored under sent_tuple.
Finished(stored, sent_tuple, comp) ==
    [prefix_states |-> Put(stored, sent_tuple, comp.state),
     allowed_token_cache |-> comp.cache,
     outcome |-> IF comp.raised # None THEN Raised(comp.raised)
                 ELSE Returned(comp.state.allowed_tokens)]

\* A derivation that advances the stored state of the prefix in place: the
\* prefix is left with the text and the grammar state of its extension.
Derived_in_place(c, states, cache, sent_tuple, new) ==
    IF new.raised # None
    THEN [prefix_states |-> states, allowed_token_cache |-> cache,
          outcome |-> Raised(new.raised)]
    ELSE Finished(IF Path(states, sent_tuple) = "incremental"
                  THEN Put(Put(states, prev_step_tuple(sent_tuple), new.state),
                           sent_tuple, new.state)
                  ELSE Put(states, sent_tuple, new.state),
                  sent_tuple,
                  _compute_allowed_tokens(c, Put(states, sent_tuple, new.state),
                                          cache, new.state))

\* A derivation that, at a character the grammar does not allow, switches
\* the stored state of the prefix to the force-stop state as well.
Derived_stop_prefix(c, states, cache, sent_tuple, new) ==
    IF new.raised # None
    THEN [prefix_states |-> states, allowed_token_cache |-> cache,
          outcome |-> Raised(new.raised)]
    ELSE Finished(IF Path(states, sent_tuple) = "incremental"
                     /\ new.state.parser = ForceStopParser
                  THEN Put(Put(states, prev_step_tuple(sent_tuple),
                               [states[prev_step_tuple(sent_tuple)]
                                  EXCEPT !.parser = ForceStopParser]),
                           sent_tuple, new.state)
                  ELSE Put(states, sent_tuple, new.state),
                  sent_tuple,
                  _compute_allowed_tokens(c, Put(states, sent_tuple, new.state),
                                          cache, new.state))

\* A derivation that takes a first call for the start of a new request and
\* starts the state map over.
Derived_reset(c, states, cache, sent_tuple, new) ==
    IF new.raised # None
    THEN [prefix_states |-> states, allowed_token_cache |-> cache,
          outcome |-> Raised(new.raised)]
    ELSE IF Path(states, sent_tuple) = "fresh"
    THEN Finished(Put(Empty, sent_tuple, new.state), sent_tuple,
                  _compute_allowed_tokens(c, Put(Empty, sent_tuple, new.state),
                                          cache, new.state))
    ELSE Finished(Put(states, sent_tuple, new.state), sent_tuple,
                  _compute_allowed_tokens(c, Put(states, sent_tuple, new.state),
                                          cache, new.state))

\* The computing branches of get_allowed_tokens once the new state is
\* derived: store it, compute its allowed tokens, return them.
Derived(c, states, cache, sent_tuple, new) ==
    IF new.raised # None
    THEN [prefix_states |-> states, allowed_token_cache |-> cache,
          outcome |-> Raised(new.raised)]
    ELSE Finished(Put(states, sent_tuple, new.state), sent_tuple,
                  _compute_allowed_tokens(c, Put(states, sent_tuple, new.state),
                                          cache, new.state))

\* get_allowed_tokens(token_sequence) on a session with the maps states and
\* cache: the maps after the call and the call's outcome.
get_allowed_tokens(c, states, cache, token_sequence) ==
    IF token_sequence \in DOMAIN states
    THEN [prefix_states |-> states, allowed_token_cache |-> cache,
          outcome |-> Returned(states[token_sequence].allowed_tokens)]
    ELSE Derived(c, states, cache, token_sequence,
                 NewState(c, states, token_sequence))

----
(* The session as a state machine: the host's calls.                       *)

\* The token sequences of length at most n.
Seqs(vocab, n) == UNION { [1..k -> TokenIds(vocab)] : k \in 0..n }

Call(seq, path, o) ==
    [seq |-> seq, path |-> path, kind |-> o.kind, tokens |-> o.tokens,
     error |-> o.error]

NoSession == [prefix_states |-> Empty, allowed_token_cache |-> Empty,
              log |-> Empty, order |-> <<>>]

\* No call of get_allowed_tokens is under way and none was made.
NoWalk == [status |-> "idle", seq |-> <<>>, stack |-> <<>>,
           allowed_tokens |-> {}, visits |-> Empty]

Init ==
    /\ cfg \in Configs
    /\ prefix_states = Empty
    /\ allowed_token_cache = Empty
    /\ log = Empty
    /\ first = Empty
    /\ origin = Empty
    /\ order = <<>>
    /\ twin = NoSession
    /\ walk = NoWalk

\* The session and its histories after a call that took the branch path and
\* ended as r.
Commit(seq, path, r) ==
    /\ prefix_states' = r.prefix_states
    /\ allowed_token_cache' = r.allowed_token_cache
    /\ log' = Put(log, seq, r.outcome)
    /\ first' = IF seq \in DOMAIN first THEN first
                ELSE Put(first, seq, Call(seq, path, r.outcome))
    /\ origin' = IF seq \in DOMAIN prefix_states
                    \/ seq \notin DOMAIN r.prefix_states
                 THEN origin
                 ELSE IF path = "fresh"
                 THEN Put(origin, seq, Len(decoder(cfg, seq)))
                 ELSE Put(origin, seq, origin[prev_step_tuple(seq)])
    /\ UNCHANGED <<cfg, walk>>

\* One call get_allowed_tokens(seq) on the session.
Apply(seq) ==
    Commit(seq, Path(prefix_states, seq),
           get_allowed_tokens(cfg, prefix_states, allowed_token_cache, seq))

\* The sequences the host passes.
Inputs == Seqs(cfg.vocab, MaxSeqLen)

\* The host may pass seq: it did before, or it has passed fewer than
\* MaxQueries distinct sequences.
Asked(queried, seq) ==
    seq \in DOMAIN queried \/ Cardinality(DOMAIN queried) < MaxQueries

\* A repeat query of a stored sequence.
Repeat ==
    \E seq \in Inputs :
        /\ Path(prefix_states, seq) = "stored"
        /\ Apply(seq)
        /\ UNCHANGED <<order, twin>>

\* A query of a sequence whose immediate prefix has no stored state.
Fresh ==
    \E seq \in Inputs :
        /\ Asked(log, seq)
        /\ Len(seq) <= MaxPromptLen
        /\ Path(prefix_states, seq) = "fresh"
        /\ Apply(seq)
        /\ UNCHANGED <<order, twin>>

\* A query of a one-token extension of a stored sequence.
Extend ==
    \E seq \in Inputs :
        /\ Asked(log, seq)
        /\ Path(prefix_states, seq) = "incremental"
        /\ Apply(seq)
        /\ UNCHANGED <<order, twin>>

Next == Repeat \/ Fresh \/ Extend

Spec == Init /\ [][Next]_vars

----------------------------------------------------------------------------
(* Two sessions built from the same arguments, given the same first query  *)
(* and then the same queries, each in an order of its own in which every   *)
(* sequence follows its immediate prefix.                                  *)

TwinCommit(seq, path, r) ==
    twin' = [prefix_states |-> r.prefix_states,
             allowed_token_cache |-> r.allowed_token_cache,
             log |-> Put(twin.log, seq, r.outcome),
             order |-> Append(twin.order, seq)]

\* One call get_allowed_tokens(seq) on the second session.
TwinApply(seq) ==
    TwinCommit(seq, Path(twin.prefix_states, seq),
               get_allowed_tokens(cfg, twin.prefix_states,
                                  twin.allowed_token_cache, seq))

\* The first (prompt) query, made on both sessions.
BeamPrompt ==
    \E seq \in Inputs :
        /\ log = Empty
        /\ Len(seq) <= MaxPromptLen
        /\ Apply(seq)
        /\ order' = <<seq>>
        /\ TwinApply(seq)

\* A further query on the first session.
BeamQuery ==
    \E seq \in Inputs :
        /\ log # Empty /\ Cardinality(DOMAIN log) < MaxQueries
        /\ seq \notin DOMAIN log
        /\ seq # <<>> /\ prev_step_tuple(seq) \in DOMAIN log
        /\ Apply(seq)
        /\ order' = Append(order, seq)
        /\ UNCHANGED twin

\* The same query on the second session, in that session's own order.
BeamTwinQuery ==
    \E seq \in Inputs :
        /\ seq \in DOMAIN log
        /\ seq \notin DOMAIN twin.log
        /\ seq # <<>> /\ prev_step_tuple(seq) \in DOMAIN twin.log
        /\ TwinApply(seq)
        /\ UNCHANGED <<cfg, prefix_states, allowed_token_cache, log, first,
                       origin, order, walk>>

NextBeams == BeamPrompt \/ BeamQuery \/ BeamTwinQuery

SpecBeams == Init /\ [][NextBeams]_vars

----------------------------------------------------------------------------
(* The session next to a second one that is given the same queries in the  *)
(* same order and never finds anything in its cross-path cache: it         *)
(* recomputes the tree/grammar intersection of every new state.            *)

PlainCommit(seq, r) ==
    twin' = [prefix_states |-> r.prefix_states,
             allowed_token_cache |-> Empty,
             log |-> Put(twin.log, seq, r.outcome),
             order |-> twin.order]

\* One call get_allowed_tokens(seq) on the second session, its cache empty.
PlainApply(seq) ==
    PlainCommit(seq, get_allowed_tokens(cfg, twin.prefix_states, Empty, seq))

\* A repeat query of a stored sequence, on both sessions.
PlainRepeat ==
    \E seq \in Inputs :
        /\ Path(prefix_states, seq) = "stored"
        /\ Apply(seq)
        /\ PlainApply(seq)
        /\ UNCHANGED order

\* A first or incremental query, on both sessions.
PlainQuery ==
    \E seq \in Inputs :
        /\ Asked(log, seq)
        /\ Path(prefix_states, seq) # "stored"
        /\ Path(prefix_states, seq) = "fresh" => Len(seq) <= MaxPromptLen
        /\ Apply(seq)
        /\ PlainApply(seq)
        /\ UNCHANGED order

NextPlain == PlainRepeat \/ PlainQuery

SpecPlain == Init /\ [][NextPlain]_vars

----------------------------------------------------------------------------
(* The session with its calls of get_allowed_tokens taken step by step:    *)
(* the call stores the new state and looks its cache key up, then the      *)
(* tree/grammar intersection runs one recursive call of                    *)
(* _collect_allowed_tokens and one return at a time, then the result is    *)
(* written to the stored state and to the cross-path cache.  A frame of    *)
(* the call stack holds the call's arguments and the characters its loop   *)
(* has still to explore; the loop iterates a set, so the next character is *)
(* any of them.  walk.status is where the call is: "running" (in the       *)
(* intersection), "collected" (the intersection returned), "handling" (in  *)
(* the handler of unexpected faults), and at the end "returned", "forced"  *)
(* (the handler set the end marker) or "raised".  The histories log,       *)
(* first, origin and order are those of the other specifications and are   *)
(* not kept here.                                                          *)

\* A recursive call that is handed the node of its caller.
next_tree_node_same(tree_node, character) == tree_node

\* tree_node.children[character]
next_tree_node(tree_node, character) == Append(tree_node, character)

\* The entry of a call _collect_allowed_tokens(parser, tree_node, ...,
\* shortcut) made in the walk w: the node's ids are appended, then the
\* grammar is asked for its characters, which may raise and unwind the stack.
Enter(w, parser, tree_node, shortcut) ==
    [status |-> CASE raises(parser) = None -> "running"
                  [] raises(parser) = "LMFormatEnforcerException" -> "raised"
                  [] OTHER -> "handling",
     seq    |-> w.seq,
     stack  |-> IF raises(parser) # None THEN <<>>
                ELSE Append(w.stack,
                            [parser |-> parser, tree_node |-> tree_node,
                             todo |-> characters_to_explore(cfg, parser,
                                                            tree_node,
                                                            shortcut)]),
     allowed_tokens |->
         w.allowed_tokens \cup tokens(cfg.vocab, tree_node)
           \cup (IF raises(parser) = None /\ shortcut = "json_freetext"
                 THEN json_freetext_tokens(cfg.vocab) ELSE {}),
     visits |-> [w.visits EXCEPT ![tree_node] = @ + 1]]

\* A call of get_allowed_tokens(seq) that has not entered the intersection.
Called(seq, status, allowed) ==
    [status |-> status, seq |-> seq, stack |-> <<>>,
     allowed_tokens |-> allowed,
     visits |-> [n \in TreeNodes(cfg.vocab) |-> 0]]

\* The frame on top of the stack.
Top == walk.stack[Len(walk.stack)]

\* The call is under way.
Walking == walk.status \in {"running", "collected", "handling"}

\* The state the call under way stored for its sequence.
Walked == prefix_states[walk.seq]

\* get_allowed_tokens(seq) for a stored sequence: the stored list is
\* returned.
WalkStored ==
    \E seq \in Inputs :
        /\ ~Walking
        /\ Path(prefix_states, seq) = "stored"
        /\ walk' = Called(seq, "returned", prefix_states[seq].allowed_tokens)
        /\ UNCHANGED <<cfg, prefix_states, allowed_token_cache, log, first,
                       origin, order, twin>>

\* The start of get_allowed_tokens(seq) once the state new is derived: an
\* exception of _apply_new_characters leaves the call; otherwise the state
\* is stored, and _compute_allowed_tokens takes the list the cross-path
\* cache holds for its key or calls _collect_allowed_tokens at the tree
\* root.
Begin(seq, new) ==
    IF new.raised # None
    THEN /\ walk' = Called(seq, "raised", {})
         /\ UNCHANGED prefix_states
    ELSE IF cache_key(new.state.parser) # None
            /\ cache_key(new.state.parser) \in DOMAIN allowed_token_cache
    THEN /\ walk' = Called(seq, "returned",
                           allowed_token_cache[cache_key(new.state.parser)])
         /\ prefix_states' =
                Put(prefix_states, seq,
                    [new.state EXCEPT
                       !.allowed_tokens =
                           allowed_token_cache[cache_key(new.state.parser)]])
    ELSE /\ walk' = Enter(Called(seq, "running", {}), new.state.parser, <<>>,
                          shortcut_key(new.state.parser))
         /\ prefix_states' = Put(prefix_states, seq, new.state)

\* get_allowed_tokens(seq) for a sequence that is not stored.
WalkCall ==
    \E seq \in Inputs :
        /\ ~Walking
        /\ Cardinality(DOMAIN prefix_states) < MaxWalkCalls
        /\ Path(prefix_states, seq) # "stored"
        /\ Path(prefix_states, seq) = "fresh" => Len(seq) <= MaxPromptLen
        /\ Begin(seq, NewState(cfg, prefix_states, seq))
        /\ UNCHANGED <<cfg, allowed_token_cache, log, first, origin, order,
                       twin>>

\* The loop of the call on top takes its next character and calls
\* _collect_allowed_tokens for the child node.
WalkDescend ==
    /\ walk.status = "running"
    /\ \E character \in Top.todo :
          walk' = Enter([walk EXCEPT
                           !.stack[Len(walk.stack)].todo = @ \ {character}],
                        add_character(Top.parser, character),
                        next_tree_node(Top.tree_node, character), None)
    /\ UNCHANGED <<cfg, prefix_states, allowed_token_cache, log, first,
                   origin, order, twin>>

\* The loop of the call on top is over: the call returns.
WalkReturn ==
    /\ walk.status = "running"
    /\ Top.todo = {}
    /\ walk' = [walk EXCEPT
                  !.stack = SubSeq(walk.stack, 1, Len(walk.stack) - 1),
                  !.status = IF Len(walk.stack) = 1 THEN "collected"
                             ELSE "running"]
    /\ UNCHANGED <<cfg, prefix_states, allowed_token_cache, log, first,
                   origin, order, twin>>

\* The list of the call under way with the end marker appended if the
\* state can end.
Finishing ==
    walk.allowed_tokens
      \cup (IF can_end(Walked.parser) THEN {eos_token_id} ELSE {})

\* The intersection returned: the end marker is appended if the state can
\* end; an empty list raises ValueError; otherwise the list is written to
\* the stored state and, under the state's cache key, to the cross-path
\* cache.
WalkFinish ==
    /\ walk.status = "collected"
    /\ IF Finishing = {}
       THEN /\ walk' = [walk EXCEPT !.status = "handling"]
            /\ UNCHANGED <<prefix_states, allowed_token_cache>>
       ELSE /\ walk' = [walk EXCEPT !.status = "returned",
                                    !.allowed_tokens = Finishing]
            /\ prefix_states' =
                   [prefix_states EXCEPT
                      ![walk.seq].allowed_tokens = Finishing]
            /\ allowed_token_cache' =
                   IF cache_key(Walked.parser) # None
                   THEN Put(allowed_token_cache, cache_key(Walked.parser),
                            Finishing)
                   ELSE allowed_token_cache
    /\ UNCHANGED <<cfg, log, first, origin, order, twin>>

\* except Exception: the handler looks for a stored state with the root
\* parser (StopIteration leaves the call when there is none) and sets the
\* allowed tokens of the stored state to the end marker.
WalkFallback ==
    /\ walk.status = "handling"
    /\ IF \E s \in DOMAIN prefix_states :
             prefix_states[s].parser = root_parser(cfg)
       THEN /\ walk' = [walk EXCEPT !.status = "forced",
                                    !.allowed_tokens = {eos_token_id}]
            /\ prefix_states' =
                   [prefix_states EXCEPT
                      ![walk.seq].allowed_tokens = {eos_token_id}]
       ELSE /\ walk' = [walk EXCEPT !.status = "raised"]
            /\ UNCHANGED prefix_states
    /\ UNCHANGED <<cfg, allowed_token_cache, log, first, origin, order,
                   twin>>

NextWalk ==
    \/ WalkStored \/ WalkCall \/ WalkDescend \/ WalkReturn
    \/ WalkFinish \/ WalkFallback

\* A call under way goes on: the interpreter runs it to its end.
SpecWalk ==
    /\ Init /\ [][NextWalk]_vars
    /\ WF_vars(WalkDescend \/ WalkReturn \/ WalkFinish \/ WalkFallback)

----------------------------------------------------------------------------
(* Vocabulary of the properties.                                           *)

RECURSIVE Consumes(_, _)
\* The string can be consumed character by character from the grammar state,
\* each character being allowed by the state reached so far.
Consumes(parser, string) ==
    \/ string = <<>>
    \/ /\ raises(parser) = None
       /\ Head(string) \in get_allowed_characters(parser)
       /\ Consumes(add_character(parser, Head(string)), Tail(string))

\* The brute-force walk over the whole vocabulary.
ValidTokens(c, parser) ==
    { t \in TokenIds(c.vocab) : Consumes(parser, regular_tokens(c.vocab)[t]) }

\* What the tree/grammar intersection of a grammar state ends in: "raised"
\* (a recognized error leaves the call), "forced" (another fault, or no token
\* and no end: the sequence is forced to stop) or "completed".
Ending(c, parser) ==
    LET col == _collect_allowed_tokens(c, parser, <<>>, shortcut_key(parser))
    IN  IF col.raised = "LMFormatEnforcerException" THEN "raised"
        ELSE IF col.raised # None \/ (col.tokens = {} /\ ~can_end(parser))
        THEN "forced"
        ELSE "completed"

\* The grammar state stored for a sequence.
StateOf(seq) == prefix_states[seq].parser

\* The queries that returned a set, by their latest outcome.
ReturnedSeqs == { s \in DOMAIN log : log[s].kind = "return" }

\* The characters a first query of a one-token extension fed to the grammar.
NewCharacters(seq) ==
    DropFirst(decoder(cfg, seq),
              Len(prefix_states[prev_step_tuple(seq)].str_so_far))

\* The sequences first queried as a one-token extension of a stored one.
Incremental == { s \in DOMAIN first : first[s].path = "incremental" }

----------------------------------------------------------------------------
(* C1: soundness.                                                          *)

\* C1 as stated: every returned id is a vocabulary token whose string the
\* grammar state of the sequence consumes character by character, or the end
\* marker, returned only when that state can terminate.
C1_SoundAsStated ==
    \A s \in ReturnedSeqs : \A t \in log[s].tokens :
        \/ t \in ValidTokens(cfg, StateOf(s))
        \/ t = eos_token_id /\ can_end(StateOf(s))

\* C1, amended: every returned id is a vocabulary token whose string the
\* grammar state of the sequence consumes character by character, or the end
\* marker; the end marker is returned only when that state can terminate or
\* the sequence was forced to stop after a fault that is not a recognized
\* error.
C1_Sound ==
    \A s \in ReturnedSeqs : \A t \in log[s].tokens :
        \/ t \in ValidTokens(cfg, StateOf(s))
        \/ /\ t = eos_token_id
           /\ can_end(StateOf(s)) \/ Ending(cfg, StateOf(s)) = "forced"

\* A query returned a token of two characters, and another was forced to
\* stop in a state that cannot terminate.
C1_Witness ==
    /\ \E s \in ReturnedSeqs : \E t \in log[s].tokens :
          t # eos_token_id /\ Len(regular_tokens(cfg.vocab)[t]) = 2
    /\ \E s \in ReturnedSeqs :
          /\ eos_token_id \in log[s].tokens
          /\ ~can_end(StateOf(s))

----------------------------------------------------------------------------
(* C2: completeness.                                                       *)

\* C2: every vocabulary token whose string the grammar state of the sequence
\* consumes character by character is in the returned set.  Stated for the
\* queries whose intersection completed: one that raised or was forced to
\* stop returns no such set (C8, C9).
C2_Complete ==
    \A s \in ReturnedSeqs :
        Ending(cfg, StateOf(s)) = "completed" =>
            ValidTokens(cfg, StateOf(s)) \subseteq log[s].tokens

----------------------------------------------------------------------------
(* C3: incremental consistency.                                            *)

\* One step of a walk from scratch: the force-stop state replaces the state
\* at a character the grammar does not allow.
Step(parser, character) ==
    IF raises(parser) = None /\ character \in get_allowed_characters(parser)
    THEN add_character(parser, character)
    ELSE ForceStopParser

RECURSIVE FromScratch(_, _, _)
\* The grammar state after the first n characters of text, from parser.
FromScratch(parser, text, n) ==
    IF n = 0 THEN parser
    ELSE Step(FromScratch(parser, text, n - 1), text[n])

\* C3 as stated: the state stored for a one-token extension equals the state
\* reached from the root grammar state over the decoded text of the
\* extension.
C3_FromRootAsStated ==
    \A s \in Incremental \cap DOMAIN prefix_states :
        StateOf(s) = FromScratch(root_parser(cfg), decoder(cfg, s),
                                 Len(decoder(cfg, s)))

\* C3, amended: the state stored for a one-token extension equals the state
\* reached from the root grammar state over the decoded text of the
\* extension without the text of the fresh-root sequence it descends from
\* (which the session never feeds to the grammar), the force-stop state
\* replacing the state at the first character the grammar does not allow.
C3_FromRoot ==
    \A s \in Incremental \cap DOMAIN prefix_states :
        StateOf(s) = FromScratch(root_parser(cfg),
                                 DropFirst(decoder(cfg, s), origin[s]),
                                 Len(decoder(cfg, s)) - origin[s])

\* An extension of a prompt with text was stored, with a grammar state that
\* is neither the root's nor the force-stop state.
C3_Witness ==
    \E s \in Incremental \cap DOMAIN prefix_states :
        /\ origin[s] > 0
        /\ StateOf(s) \notin {root_parser(cfg), ForceStopParser}

----------------------------------------------------------------------------
(* C4: divergence safety.                                                  *)

RECURSIVE Diverges(_, _)
\* Some character of the string is not allowed by the grammar state reached
\* at that point.
Diverges(parser, string) ==
    /\ string # <<>>
    /\ raises(parser) = None
    /\ \/ Head(string) \notin get_allowed_characters(parser)
       \/ Diverges(add_character(parser, Head(string)), Tail(string))

\* The first queries of a one-token extension whose new characters diverge.
Divergent ==
    { s \in Incremental :
        Diverges(StateOf(prev_step_tuple(s)), NewCharacters(s)) }

\* C4: a query of a one-token extension whose new characters hold one the
\* grammar state reached at that point does not allow does not raise, stores
\* the force-stop state and returns exactly the end marker.
C4_Divergence ==
    \A s \in Divergent :
        /\ first[s].kind = "return"
        /\ s \in DOMAIN prefix_states /\ StateOf(s) = ForceStopParser
        /\ first[s].tokens = {eos_token_id}

----------------------------------------------------------------------------
(* C5: non-empty result.                                                   *)

\* C5: every set a query returns, on its first computation or on a repeat
\* query of a stored sequence, is non-empty.
C5_NonEmpty == \A s \in ReturnedSeqs : log[s].tokens # {}

----------------------------------------------------------------------------
(* C6: determinism of repeat queries.                                      *)

\* The outcome of a call, without the history's bookkeeping.
Outcome(call) ==
    [kind |-> call.kind, tokens |-> call.tokens, error |-> call.error]

\* C6: the latest query of a sequence ended as its first query did, whatever
\* was queried in between.
C6_RepeatSame == \A s \in DOMAIN log : log[s] = Outcome(first[s])

----------------------------------------------------------------------------
(* C7: order independence across beams (under SpecBeams).                  *)

\* C7: a sequence queried in both sessions got the same outcome and the same
\* stored state in both.
C7_OrderIndependent ==
    \A s \in DOMAIN log \cap DOMAIN twin.log :
        /\ log[s] = twin.log[s]
        /\ s \in DOMAIN prefix_states <=> s \in DOMAIN twin.prefix_states
        /\ s \in DOMAIN prefix_states =>
              prefix_states[s] = twin.prefix_states[s]

\* Both sessions were asked the prompt and the same two further sequences,
\* in different orders.
C7_Witness ==
    /\ Len(order) = 3 /\ Len(twin.order) = 3
    /\ order # twin.order
    /\ \A s \in DOMAIN log : s \in DOMAIN twin.log

----------------------------------------------------------------------------
(* C8: recognized errors are never swallowed.                              *)

\* C8: once a query of a sequence raised a recognized error, every query of
\* that sequence raises that error and returns no token set.
C8_NeverSwallowed ==
    \A s \in DOMAIN log :
        first[s].error = "LMFormatEnforcerException" =>
            log[s] = Raised("LMFormatEnforcerException")

----------------------------------------------------------------------------
(* C9: failure isolation.                                                  *)

\* C9: a query raises nothing but a recognized error, and a sequence whose
\* intersection met another fault, or found no token and no end, got exactly
\* the end marker.
C9_Isolated ==
    /\ \A s \in DOMAIN log :
          log[s].kind = "raise" => log[s].error = "LMFormatEnforcerException"
    /\ \A s \in ReturnedSeqs :
          Ending(cfg, StateOf(s)) = "forced" => log[s].tokens = {eos_token_id}

----------------------------------------------------------------------------
(* C10: free-text shortcut equivalence.                                    *)

\* What the query of a grammar state returns without the shortcut: the plain
\* tree/grammar intersection, and the end marker if the state can end.
PlainAllowed(c, parser) ==
    _collect_allowed_tokens(c, parser, <<>>, None).tokens
      \cup (IF can_end(parser) THEN {eos_token_id} ELSE {})

\* C10: the set returned for a grammar state that reports the free-text
\* shortcut key equals the set the plain intersection returns for it.
C10_ShortcutSame ==
    \A s \in ReturnedSeqs :
        shortcut_key(StateOf(s)) = "json_freetext" =>
            log[s].tokens = PlainAllowed(cfg, StateOf(s))

----------------------------------------------------------------------------
(* C11: the literal-grammar scenario.                                      *)

\* The text of a stored sequence beyond the text of the first-call sequence
\* it descends from.
GeneratedText(seq) == DropFirst(decoder(cfg, seq), origin[seq])

\* p is a prefix of the string.
IsPrefix(p, string) ==
    Len(p) <= Len(string) /\ SubSeq(string, 1, Len(p)) = p

\* The literal the root grammar state of a literal-string grammar expects.
Literal == root_parser(cfg).rest

\* The stored sequences of a session with a literal grammar whose generated
\* text is a prefix of the literal, and that returned a set.
OnLiteral ==
    IF cfg.grammar # "StringParser" THEN {}
    ELSE { s \in ReturnedSeqs \cap DOMAIN prefix_states :
             IsPrefix(GeneratedText(s), Literal) }

\* The tokens whose string is a prefix of the rest of the literal after p.
PrefixTokens(p) ==
    { t \in TokenIds(cfg.vocab) :
        IsPrefix(regular_tokens(cfg.vocab)[t], DropFirst(Literal, Len(p))) }

\* The sequence whose call took the fresh branch and that the stored
\* sequence seq descends from by incremental calls.
RECURSIVE FirstCall(_)
FirstCall(seq) ==
    IF first[seq].path = "fresh" THEN seq
    ELSE FirstCall(prev_step_tuple(seq))

\* The sequence is stored and descends from the root query of the empty
\* sequence.
FromEmpty(seq) == seq \in DOMAIN origin /\ FirstCall(seq) = <<>>

\* The results of the scenario: vocabulary {1:"a", 2:"b", 3:"ab", 4:"c"},
\* the literal "ab", a root query with the empty sequence and the queries
\* that follow it.
Scenario ==
    (cfg.vocab = "toy" /\ cfg.grammar = "StringParser") =>
        /\ FromEmpty(<<>>) => log[<<>>].tokens = {1, 3}
        /\ FromEmpty(<<1>>) => log[<<1>>].tokens = {2}
        /\ FromEmpty(<<3>>) => log[<<3>>].tokens = {eos_token_id}
        /\ FromEmpty(<<1, 2>>) => log[<<1, 2>>].tokens = {eos_token_id}

\* C11 as stated: the scenario's results, and for a literal grammar and a
\* sequence whose generated text is a prefix p of the literal, the result is
\* exactly the tokens whose string is a non-empty prefix of the rest of the
\* literal, plus the end marker iff p is the whole literal.
C11_LiteralAsStated ==
    /\ Scenario
    /\ \A s \in OnLiteral :
          log[s].tokens =
              { t \in PrefixTokens(GeneratedText(s)) :
                  regular_tokens(cfg.vocab)[t] # <<>> }
              \cup (IF GeneratedText(s) = Literal THEN {eos_token_id} ELSE {})

\* C11, amended: the scenario's results, and for a literal grammar and a
\* sequence whose generated text is a prefix p of the literal, the result is
\* exactly the tokens whose string is a prefix of the rest of the literal
\* (the empty token strings among them), plus the end marker if p is the
\* whole literal; when that leaves nothing, the result is the end marker
\* alone.
C11_Literal ==
    /\ Scenario
    /\ \A s \in OnLiteral :
          LET found == PrefixTokens(GeneratedText(s))
                         \cup (IF GeneratedText(s) = Literal
                               THEN {eos_token_id} ELSE {})
          IN  log[s].tokens = IF found = {} THEN {eos_token_id} ELSE found

\* The scenario was run up to [1, 2].
C11_Witness ==
    /\ cfg.vocab = "toy" /\ cfg.grammar = "StringParser"
    /\ {<<>>, <<1>>, <<1, 2>>} \subseteq OnLiteral
    /\ FromEmpty(<<1, 2>>)

----------------------------------------------------------------------------
(* C12: append-only caches.                                                *)

\* Every entry of the map f is an entry of the map g.
Kept(f, g) == \A k \in DOMAIN f : k \in DOMAIN g /\ g[k] = f[k]

\* C12: no step removes a key of the sequence-state map or of the
\* cross-path cache, or changes the text, the grammar state or the allowed
\* tokens stored under it.
C12_AppendOnly ==
    [][/\ Kept(prefix_states, prefix_states')
       /\ Kept(allowed_token_cache, allowed_token_cache')]_vars

\* Three sequences are stored, two of them first calls, and two cache keys.
C12_Witness ==
    /\ Cardinality(DOMAIN prefix_states) >= 3
    /\ Cardinality({ s \in DOMAIN first : first[s].path = "fresh" }) >= 2
    /\ Cardinality(DOMAIN allowed_token_cache) >= 2

----------------------------------------------------------------------------
(* C13: force-stop is absorbing.                                           *)

\* C13: a one-token extension of a sequence whose stored grammar state is
\* the force-stop state is stored with the force-stop state, whatever its
\* token decodes to, and its query returns exactly the end marker.
C13_Absorbing ==
    \A s \in Incremental :
        (prev_step_tuple(s) \in DOMAIN prefix_states
           /\ StateOf(prev_step_tuple(s)) = ForceStopParser) =>
            /\ s \in DOMAIN prefix_states /\ StateOf(s) = ForceStopParser
            /\ first[s] = Call(s, "incremental", Returned({eos_token_id}))
            /\ log[s] = Returned({eos_token_id})

----------------------------------------------------------------------------
(* C14: cache transparency (under SpecPlain).                              *)

\* C14: every query ended in the session with the cross-path cache as it
\* did in the session that recomputes every intersection.
C14_Transparent ==
    /\ DOMAIN log = DOMAIN twin.log
    /\ \A s \in DOMAIN log : log[s] = twin.log[s]

\* Two stored sequences share a cache key: the later one was answered from
\* the cross-path cache, with a set that holds a vocabulary token.
C14_Witness ==
    \E s, u \in DOMAIN prefix_states \cap ReturnedSeqs :
        /\ s # u
        /\ cache_key(StateOf(s)) # None
        /\ cache_key(StateOf(s)) = cache_key(StateOf(u))
        /\ cache_key(StateOf(s)) \in DOMAIN allowed_token_cache
        /\ log[s].tokens # {eos_token_id}
        /\ s \in DOMAIN twin.log /\ u \in DOMAIN twin.log

----------------------------------------------------------------------------
(* C15: the fresh-root rule.                                               *)

\* The sequences whose first query found neither them nor their immediate
\* prefix stored.
FreshRoots == { s \in DOMAIN first : first[s].path = "fresh" }

\* C15: such a sequence is stored with the root grammar state and the text
\* of the whole sequence, and a stored one-token extension of it has the
\* state the root reaches over the characters beyond that text only.
C15_FreshRoot ==
    \A s \in FreshRoots :
        /\ s \in DOMAIN prefix_states
        /\ StateOf(s) = root_parser(cfg)
        /\ prefix_states[s].str_so_far = decoder(cfg, s)
        /\ \A u \in Incremental \cap DOMAIN prefix_states :
              prev_step_tuple(u) = s =>
                  StateOf(u) = FromScratch(root_parser(cfg), NewCharacters(u),
                                           Len(NewCharacters(u)))

\* A sequence with text was first queried while another sequence was
\* stored, and an extension of it consumed a character of the grammar.
C15_Witness ==
    \E s \in FreshRoots, u \in Incremental \cap DOMAIN prefix_states :
        /\ decoder(cfg, s) # <<>>
        /\ Cardinality(FreshRoots) >= 2
        /\ prev_step_tuple(u) = s
        /\ StateOf(u) \notin {root_parser(cfg), ForceStopParser}

----------------------------------------------------------------------------
(* C16: the per-sequence frame.                                            *)

\* C16: every step is a query of one sequence seq that adds at most the
\* entry of seq to the sequence-state map and at most the entry of the cache
\* key of its grammar state to the cross-path cache, changes no other entry
\* of either map, and changes nothing at all when seq was stored.
C16_Frame ==
    [][\E seq \in Inputs :
          /\ seq \in DOMAIN log'
          /\ \A t \in DOMAIN log : t # seq => log'[t] = log[t]
          /\ DOMAIN prefix_states' \subseteq DOMAIN prefix_states \cup {seq}
          /\ Kept(prefix_states, prefix_states')
          /\ Kept(allowed_token_cache, allowed_token_cache')
          /\ DOMAIN allowed_token_cache' \ DOMAIN allowed_token_cache
                \subseteq (IF seq \in DOMAIN prefix_states'
                           THEN {cache_key(prefix_states'[seq].parser)}
                           ELSE {})
          /\ seq \in DOMAIN prefix_states =>
                UNCHANGED <<prefix_states, allowed_token_cache>>]_vars

\* A sequence was force-stopped and another met a fault while a third was
\* stored.
C16_Witness ==
    \E s, t, u \in DOMAIN prefix_states :
        /\ s # t /\ s # u /\ t # u
        /\ StateOf(s) = ForceStopParser
        /\ Ending(cfg, StateOf(t)) # "completed"

----------------------------------------------------------------------------
(* C17: no cache poisoning.                                                *)

\* What a completed tree/grammar intersection of a grammar state leaves in
\* allowed_tokens.
CompletedResult(c, parser) ==
    _collect_allowed_tokens(c, parser, <<>>, shortcut_key(parser)).tokens
      \cup (IF can_end(parser) THEN {eos_token_id} ELSE {})

\* C17: every set in the cross-path cache is non-empty and is what the
\* completed intersection of a stored state with that cache key left; the
\* cache key of a state that was forced to stop after a fault is not in the
\* cache.
C17_NoPoison ==
    /\ \A k \in DOMAIN allowed_token_cache :
          /\ allowed_token_cache[k] # {}
          /\ \E s \in DOMAIN prefix_states :
                /\ cache_key(StateOf(s)) = k
                /\ Ending(cfg, StateOf(s)) = "completed"
                /\ allowed_token_cache[k] = CompletedResult(cfg, StateOf(s))
    /\ \A s \in DOMAIN prefix_states :
          Ending(cfg, StateOf(s)) # "completed" =>
              cache_key(StateOf(s)) \notin DOMAIN allowed_token_cache

\* A state with a cache key was forced to stop after a fault, and the
\* completed result of another state is in the cache.
C17_Witness ==
    /\ allowed_token_cache # Empty
    /\ \E s \in DOMAIN prefix_states \cap ReturnedSeqs :
          /\ Ending(cfg, StateOf(s)) = "forced"
          /\ cache_key(StateOf(s)) # None
          /\ log[s].tokens = {eos_token_id}

----------------------------------------------------------------------------
(* C18: termination (under SpecWalk).                                      *)

\* The length of the longest token string.
LongestToken(vocab) ==
    LET lengths == { Len(regular_tokens(vocab)[t]) : t \in TokenIds(vocab) }
    IN  CHOOSE n \in lengths : \A m \in lengths : m <= n

\* No tree node was visited twice, and the calls on the stack are the nodes
\* of one path from the root, no deeper than the longest token string.
Bounded ==
    /\ \A n \in DOMAIN walk.visits : walk.visits[n] <= 1
    /\ Len(walk.stack) <= LongestToken(cfg.vocab) + 1
    /\ \A i \in 1..Len(walk.stack) : Len(walk.stack[i].tree_node) = i - 1

\* C18: a call of get_allowed_tokens visits no tree node twice in its
\* tree/grammar intersection, never recurses deeper than the length of the
\* longest token string, and comes to an end.
C18_Terminates ==
    /\ []Bounded
    /\ Walking ~> ~Walking

\* A call returned after visiting a node two characters deep, and left in the stored state and in the cross-path
\* cache what get_allowed_tokens leaves there.
C18_Witness ==
    /\ walk.status = "returned"
    /\ \E n \in DOMAIN walk.visits : Len(n) = 2 /\ walk.visits[n] = 1
    /\ Walked.allowed_tokens = walk.allowed_tokens
    /\ walk.allowed_tokens = CompletedResult(cfg, Walked.parser)
    /\ cache_key(Walked.parser) \in DOMAIN allowed_token_cache
    /\ allowed_token_cache[cache_key(Walked.parser)] = walk.allowed_tokens

====
